---- MODULE Spec2Model ----
(***************************************************************************)
(* Model of the flights demo service (src/flights/app.py): four Flask      *)
(* routes (health, home, get_flights, book_flight), the process-wide       *)
(* logging setup, and the failure injection switched by the `raise` query  *)
(* parameter.  Every request runs in its own execution context; the        *)
(* statements of a handler are separate steps so that concurrently served  *)
(* requests interleave at every log emission.                              *)
(***************************************************************************)
EXTENDS Integers, Sequences, FiniteSets, TLC

\* ---------------------------------------------------------------- bounds
\* Number of execution contexts (each serves one request).
NumContexts == 2
\* Number of requests of the serial specification.
MaxSerial == 1

Contexts == 1..NumContexts

\* ------------------------------------------------------- Python values
\* A query-string value: a str, or None when the key is absent.
Str(s) == [type |-> "str", val |-> s]
None == [type |-> "NoneType", val |-> ""]

\* Mutant: only the documented value "500" switches the failure on.
TruthyOnly500(v) == v.type = "str" /\ v.val = "500"

\* Mutant: any value that is present switches the failure on (is not None).
TruthyNotNone(v) == v.type = "str"

\* Python truthiness of an Optional[str]: None and "" are falsy.
Truthy(v) == v.type = "str" /\ v.val # ""

\* request.args: the query string as a mapping from the keys present to
\* their values.  request.args.get(key) is None when the key is absent.
ArgsGet(args, key) == IF key \in DOMAIN args THEN Str(args[key]) ELSE None

\* ------------------------------------------------------------- inputs
\* Query strings: a mapping defined on any subset of the keys a route reads.
QueryKeys == {"passenger_name", "flight_num", "raise"}

ValuesOf(key, raises, names, nums) ==
    IF key = "raise" THEN raises
    ELSE IF key = "passenger_name" THEN names ELSE nums

QueryStrings(keys, raises, names, nums) ==
    LET all == raises \cup names \cup nums
    IN  {f \in UNION {[ks -> all] : ks \in SUBSET keys} :
            \A k \in DOMAIN f : f[k] \in ValuesOf(k, raises, names, nums)}

\* The requests a client may send: values inside and outside the documented
\* enums, the failure switch absent, empty, "500" and not "500".
Airlines == {"AA", "ZZ"}
RaiseValues == {"", "500", "boom"}
PassengerNames == {"John Doe", "Mallory"}
FlightNums == {"101"}

HealthRequest == [endpoint |-> "health", airline |-> "", args |-> [k \in {} |-> ""]]
HomeRequest == [endpoint |-> "home", airline |-> "", args |-> [k \in {} |-> ""]]

LookupRequests(airlines, raises) ==
    {[endpoint |-> "get_flights", airline |-> a, args |-> q] :
        a \in airlines, q \in QueryStrings({"raise"}, raises, {}, {})}

BookRequests(raises, names, nums) ==
    {[endpoint |-> "book_flight", airline |-> "", args |-> q] :
        q \in QueryStrings(QueryKeys, raises, names, nums)}

AllRequests ==
    {HealthRequest, HomeRequest}
        \cup LookupRequests(Airlines, RaiseValues)
        \cup BookRequests(RaiseValues, PassengerNames, FlightNums)

\* The requests of the concurrent specification: one value per parameter,
\* the failure switch absent or "500".
FewRequests ==
    {HealthRequest, HomeRequest}
        \cup LookupRequests({"AA"}, {"500"})
        \cup {b \in BookRequests({"500"}, {"John Doe"}, {"101"}) :
                 {"passenger_name", "flight_num"} \subseteq DOMAIN b.args}

\* ---------------------------------------------------- collaborators
\* utils.get_random_int(low, high): an integer of the closed range.
get_random_int(low, high) == low..high

\* The identifiers the model draws from a range: its two ends.
Sample(S) == {n \in S : (n - 1) \notin S \/ (n + 1) \notin S}

\* The logging sink configured at import time (app.py lines 20-32).
DefaultEndpoint == "http://alloy:4318"
EnvValues == {None, Str("http://collector:4318")}

\* os.getenv(name, default): the default only when the variable is unset.
getenv(env, default) == IF env = None THEN default ELSE env.val

LoggingSetup(env) ==
    [exporter_base |-> getenv(env, DefaultEndpoint),
     exporter_path |-> "/v1/logs",
     handler_level |-> "NOTSET",
     root_level    |-> "INFO",
     instrumented  |-> TRUE]

\* Mutant: emitting a record starts the stream afresh.
EmitTruncating(stream, rec) == <<rec>>

\* logger.info / logger.error: the record is appended to the sink's stream.
LogRecord(level, msg, args, r) ==
    [levelname |-> level, msg |-> msg, args |-> args, thread |-> r]

Emit(stream, rec) == Append(stream, rec)

\* ------------------------------------------------------------- state
VARIABLES
    pc,             \* position of each execution context in its handler
    request,        \* the request a context serves
    passenger_name, \* locals of the handlers, per context
    flight_num,
    status_code,
    random_int,
    booking_id,
    response,       \* the response sent, status 0 while there is none
    raised,         \* the code embedded in the exception that left the handler
    log,            \* the records emitted to the logging sink, in order
    sink,           \* the logging sink's configuration
    events          \* per context: what the handler did, in order

vars == <<pc, request, passenger_name, flight_num, status_code, random_int,
          booking_id, response, raised, log, sink, events>>

NoRequest == [endpoint |-> "", airline |-> "", args |-> [k \in {} |-> ""]]
NoResponse == [status |-> 0, body |-> [k \in {} |-> ""]]

Init ==
    /\ pc = [r \in Contexts |-> "idle"]
    /\ request = [r \in Contexts |-> NoRequest]
    /\ passenger_name = [r \in Contexts |-> None]
    /\ flight_num = [r \in Contexts |-> None]
    /\ status_code = [r \in Contexts |-> None]
    /\ random_int = [r \in Contexts |-> 0]
    /\ booking_id = [r \in Contexts |-> 0]
    /\ response = [r \in Contexts |-> NoResponse]
    /\ raised = [r \in Contexts |-> None]
    /\ log = <<>>
    /\ \E env \in EnvValues : sink = LoggingSetup(env)
    /\ events = [r \in Contexts |-> <<>>]

\* --------------------------------------------------- response bodies
\* Mutant: the probe reports a failure once an error has been logged.
health_response_after_error ==
    IF \E i \in DOMAIN log : log[i].levelname = "ERROR"
    THEN [status |-> 500, body |-> [status |-> "unhealthy"]]
    ELSE [status |-> 200, body |-> [status |-> "healthy"]]

\* jsonify({"status": "healthy"}), 200
health_response == [status |-> 200, body |-> [status |-> "healthy"]]

\* jsonify({"message": "ok"}), 200
home_response == [status |-> 200, body |-> [message |-> "ok"]]

\* jsonify({airline: [random_int]}), 200
get_flights_response(airline, n) ==
    [status |-> 200, body |-> [k \in {airline} |-> <<n>>]]

\* Mutant: the two echoed fields are exchanged.
book_flight_response_swapped(name, num, id) ==
    [status |-> 200,
     body |-> [passenger_name |-> num, flight_num |-> name, booking_id |-> id]]

\* jsonify({"passenger_name": ..., "flight_num": ..., "booking_id": ...}), 200
book_flight_response(name, num, id) ==
    [status |-> 200,
     body |-> [passenger_name |-> name, flight_num |-> num, booking_id |-> id]]

\* An exception that leaves a view function: the framework answers 500.
error_response == [status |-> 500, body |-> [error |-> "Internal Server Error"]]

\* Mutant: the upper end is off by one.
get_flights_random_wide == get_random_int(100, 1000)

\* The identifiers a handler may draw: get_random_int(100, 999).
get_flights_random == get_random_int(100, 999)
book_flight_random == get_random_int(100, 999)

\* ------------------------------------------------------------ actions
\* Mutant: status_code is one module-level variable, so that a context reads
\* the value a concurrently served request has stored.
status_code_shared(r) ==
    IF \E q \in Contexts : status_code[q].type = "str"
    THEN status_code[CHOOSE q \in Contexts : status_code[q].type = "str"]
    ELSE status_code[r]

\* status_code is a local of the handler: each context reads its own.
status_code_of(r) == status_code[r]

Did(r, e) == events' = [events EXCEPT ![r] = Append(@, e)]

\* The transport hands a request to a fresh execution context.
Dispatch(r, req) ==
    /\ pc[r] = "idle"
    /\ pc' = [pc EXCEPT ![r] = "called"]
    /\ request' = [request EXCEPT ![r] = req]
    /\ UNCHANGED <<passenger_name, flight_num, status_code, random_int,
                   booking_id, response, raised, log, sink, events>>

\* health, line 42
HealthLog(r) ==
    /\ pc[r] = "called" /\ request[r].endpoint = "health"
    /\ log' = Emit(log, LogRecord("INFO", "Health check endpoint called", <<>>, r))
    /\ pc' = [pc EXCEPT ![r] = "return"]
    /\ Did(r, "entry")
    /\ UNCHANGED <<request, passenger_name, flight_num, status_code, random_int,
                   booking_id, response, raised, sink>>

\* health, line 43
HealthReturn(r) ==
    /\ pc[r] = "return" /\ request[r].endpoint = "health"
    /\ response' = [response EXCEPT ![r] = health_response]
    /\ pc' = [pc EXCEPT ![r] = "done"]
    /\ Did(r, "respond")
    /\ UNCHANGED <<request, passenger_name, flight_num, status_code, random_int,
                   booking_id, raised, log, sink>>

\* home, line 53
HomeLog(r) ==
    /\ pc[r] = "called" /\ request[r].endpoint = "home"
    /\ log' = Emit(log, LogRecord("INFO", "Home endpoint called", <<>>, r))
    /\ pc' = [pc EXCEPT ![r] = "return"]
    /\ Did(r, "entry")
    /\ UNCHANGED <<request, passenger_name, flight_num, status_code, random_int,
                   booking_id, response, raised, sink>>

\* home, line 54
HomeReturn(r) ==
    /\ pc[r] = "return" /\ request[r].endpoint = "home"
    /\ response' = [response EXCEPT ![r] = home_response]
    /\ pc' = [pc EXCEPT ![r] = "done"]
    /\ Did(r, "respond")
    /\ UNCHANGED <<request, passenger_name, flight_num, status_code, random_int,
                   booking_id, raised, log, sink>>

\* get_flights, lines 75-76
GetFlightsEntry(r) ==
    /\ pc[r] = "called" /\ request[r].endpoint = "get_flights"
    /\ LET code == ArgsGet(request[r].args, "raise")
       IN  /\ status_code' = [status_code EXCEPT ![r] = code]
           /\ log' = Emit(log, LogRecord("INFO",
                  "Get flights endpoint called for airline=%s, raise=%s",
                  <<Str(request[r].airline), code>>, r))
    /\ pc' = [pc EXCEPT ![r] = "branch"]
    /\ Did(r, "entry")
    /\ UNCHANGED <<request, passenger_name, flight_num, random_int,
                   booking_id, response, raised, sink>>

\* Mutant: the failure branch raises without logging the error.
GetFlightsLogErrorSilent(r) ==
    /\ pc[r] = "branch" /\ request[r].endpoint = "get_flights"
    /\ Truthy(status_code[r])
    /\ pc' = [pc EXCEPT ![r] = "raise"]
    /\ UNCHANGED <<request, passenger_name, flight_num, status_code, random_int,
                   booking_id, response, raised, log, sink, events>>

\* get_flights, lines 77-78
GetFlightsLogError(r) ==
    /\ pc[r] = "branch" /\ request[r].endpoint = "get_flights"
    /\ Truthy(status_code_of(r))
    /\ log' = Emit(log, LogRecord("ERROR",
           "Exception intentionally raised in flights endpoint for airline=%s",
           <<Str(request[r].airline)>>, r))
    /\ pc' = [pc EXCEPT ![r] = "raise"]
    /\ Did(r, "error")
    /\ UNCHANGED <<request, passenger_name, flight_num, status_code, random_int,
                   booking_id, response, raised, sink>>

\* Mutant: the raise statement is missing and the handler carries on.
GetFlightsRaiseMissing(r) ==
    /\ pc[r] = "raise" /\ request[r].endpoint = "get_flights"
    /\ \E n \in {100, 999} : random_int' = [random_int EXCEPT ![r] = n]
    /\ pc' = [pc EXCEPT ![r] = "generated"]
    /\ events' = [events EXCEPT ![r] = Append(@, "generate")]
    /\ UNCHANGED <<request, passenger_name, flight_num, status_code,
                   booking_id, response, raised, log, sink>>

\* get_flights, line 79: the exception leaves the handler
GetFlightsRaise(r) ==
    /\ pc[r] = "raise" /\ request[r].endpoint = "get_flights"
    /\ raised' = [raised EXCEPT ![r] = status_code_of(r)]
    /\ response' = [response EXCEPT ![r] = error_response]
    /\ pc' = [pc EXCEPT ![r] = "done"]
    /\ Did(r, "abort")
    /\ UNCHANGED <<request, passenger_name, flight_num, status_code, random_int,
                   booking_id, log, sink>>

\* get_flights, lines 77 and 80
GetFlightsGenerate(r) ==
    /\ pc[r] = "branch" /\ request[r].endpoint = "get_flights"
    /\ ~Truthy(status_code_of(r))
    /\ \E n \in Sample(get_flights_random) :
           random_int' = [random_int EXCEPT ![r] = n]
    /\ pc' = [pc EXCEPT ![r] = "generated"]
    /\ Did(r, "generate")
    /\ UNCHANGED <<request, passenger_name, flight_num, status_code,
                   booking_id, response, raised, log, sink>>

\* get_flights, line 81
GetFlightsLogResult(r) ==
    /\ pc[r] = "generated" /\ request[r].endpoint = "get_flights"
    /\ log' = Emit(log, LogRecord("INFO", "Returning flight %s for airline %s",
           <<random_int[r], Str(request[r].airline)>>, r))
    /\ pc' = [pc EXCEPT ![r] = "return"]
    /\ Did(r, "result")
    /\ UNCHANGED <<request, passenger_name, flight_num, status_code, random_int,
                   booking_id, response, raised, sink>>

\* get_flights, line 82
GetFlightsReturn(r) ==
    /\ pc[r] = "return" /\ request[r].endpoint = "get_flights"
    /\ response' = [response EXCEPT ![r] =
           get_flights_response(request[r].airline, random_int[r])]
    /\ pc' = [pc EXCEPT ![r] = "done"]
    /\ Did(r, "respond")
    /\ UNCHANGED <<request, passenger_name, flight_num, status_code, random_int,
                   booking_id, raised, log, sink>>

\* book_flight, lines 108-111
BookFlightEntry(r) ==
    /\ pc[r] = "called" /\ request[r].endpoint = "book_flight"
    /\ LET name == ArgsGet(request[r].args, "passenger_name")
           num  == ArgsGet(request[r].args, "flight_num")
           code == ArgsGet(request[r].args, "raise")
       IN  /\ passenger_name' = [passenger_name EXCEPT ![r] = name]
           /\ flight_num' = [flight_num EXCEPT ![r] = num]
           /\ status_code' = [status_code EXCEPT ![r] = code]
           /\ log' = Emit(log, LogRecord("INFO",
                  "Book flight endpoint called for passenger=%s, flight_num=%s, raise=%s",
                  <<name, num, code>>, r))
    /\ pc' = [pc EXCEPT ![r] = "branch"]
    /\ Did(r, "entry")
    /\ UNCHANGED <<request, random_int, booking_id, response, raised, sink>>

\* book_flight, lines 112-113
BookFlightLogError(r) ==
    /\ pc[r] = "branch" /\ request[r].endpoint = "book_flight"
    /\ Truthy(status_code_of(r))
    /\ log' = Emit(log, LogRecord("ERROR",
           "Exception intentionally raised in book flight endpoint for passenger=%s",
           <<passenger_name[r]>>, r))
    /\ pc' = [pc EXCEPT ![r] = "raise"]
    /\ Did(r, "error")
    /\ UNCHANGED <<request, passenger_name, flight_num, status_code, random_int,
                   booking_id, response, raised, sink>>

\* book_flight, line 114: the exception leaves the handler
BookFlightRaise(r) ==
    /\ pc[r] = "raise" /\ request[r].endpoint = "book_flight"
    /\ raised' = [raised EXCEPT ![r] = status_code_of(r)]
    /\ response' = [response EXCEPT ![r] = error_response]
    /\ pc' = [pc EXCEPT ![r] = "done"]
    /\ Did(r, "abort")
    /\ UNCHANGED <<request, passenger_name, flight_num, status_code, random_int,
                   booking_id, log, sink>>

\* Mutant: a missing passenger_name is rejected with an error.
BookFlightGenerateChecked(r) ==
    /\ pc[r] = "branch" /\ request[r].endpoint = "book_flight"
    /\ ~Truthy(status_code[r])
    /\ IF passenger_name[r].type = "NoneType"
       THEN /\ response' = [response EXCEPT ![r] =
                   [status |-> 500, body |-> [error |-> "Internal Server Error"]]]
            /\ pc' = [pc EXCEPT ![r] = "done"]
            /\ events' = [events EXCEPT ![r] = Append(@, "abort")]
            /\ UNCHANGED booking_id
       ELSE /\ \E n \in {100, 999} : booking_id' = [booking_id EXCEPT ![r] = n]
            /\ pc' = [pc EXCEPT ![r] = "generated"]
            /\ events' = [events EXCEPT ![r] = Append(@, "generate")]
            /\ UNCHANGED response
    /\ UNCHANGED <<request, passenger_name, flight_num, status_code,
                   random_int, raised, log, sink>>

\* book_flight, lines 112 and 115
BookFlightGenerate(r) ==
    /\ pc[r] = "branch" /\ request[r].endpoint = "book_flight"
    /\ ~Truthy(status_code_of(r))
    /\ \E n \in Sample(book_flight_random) :
           booking_id' = [booking_id EXCEPT ![r] = n]
    /\ pc' = [pc EXCEPT ![r] = "generated"]
    /\ Did(r, "generate")
    /\ UNCHANGED <<request, passenger_name, flight_num, status_code,
                   random_int, response, raised, log, sink>>

\* book_flight, line 116
BookFlightLogResult(r) ==
    /\ pc[r] = "generated" /\ request[r].endpoint = "book_flight"
    /\ log' = Emit(log, LogRecord("INFO",
           "Booked flight %s for passenger %s with booking_id %s",
           <<flight_num[r], passenger_name[r], booking_id[r]>>, r))
    /\ pc' = [pc EXCEPT ![r] = "return"]
    /\ Did(r, "result")
    /\ UNCHANGED <<request, passenger_name, flight_num, status_code, random_int,
                   booking_id, response, raised, sink>>

\* book_flight, line 117
BookFlightReturn(r) ==
    /\ pc[r] = "return" /\ request[r].endpoint = "book_flight"
    /\ response' = [response EXCEPT ![r] =
           book_flight_response(passenger_name[r], flight_num[r], booking_id[r])]
    /\ pc' = [pc EXCEPT ![r] = "done"]
    /\ Did(r, "respond")
    /\ UNCHANGED <<request, passenger_name, flight_num, status_code, random_int,
                   booking_id, raised, log, sink>>

\* One statement of the handler a context is in.
Step(r) ==
    \/ HealthLog(r)
    \/ HealthReturn(r)
    \/ HomeLog(r)
    \/ HomeReturn(r)
    \/ GetFlightsEntry(r)
    \/ GetFlightsLogError(r)
    \/ GetFlightsRaise(r)
    \/ GetFlightsGenerate(r)
    \/ GetFlightsLogResult(r)
    \/ GetFlightsReturn(r)
    \/ BookFlightEntry(r)
    \/ BookFlightLogError(r)
    \/ BookFlightRaise(r)
    \/ BookFlightGenerate(r)
    \/ BookFlightLogResult(r)
    \/ BookFlightReturn(r)

\* Requests served one after the other: a request is dispatched when the
\* earlier ones have been answered.
ServeNext(r) ==
    /\ r <= MaxSerial
    /\ \A q \in Contexts : (q < r => pc[q] = "done") /\ (q > r => pc[q] = "idle")
    /\ \E req \in AllRequests : Dispatch(r, req)

\* Requests served concurrently: a request is dispatched at any time, the
\* contexts being numbered in the order of arrival.
ServeAny(r) ==
    /\ \A q \in Contexts : q < r => pc[q] # "idle"
    /\ \E req \in FewRequests : Dispatch(r, req)

Next == \E r \in Contexts : ServeNext(r) \/ Step(r)

Spec == Init /\ [][Next]_vars

NextConcurrent == \E r \in Contexts : ServeAny(r) \/ Step(r)

\* The concurrent specification starts with the collector's address unset.
InitConcurrent == Init /\ sink = LoggingSetup(None)

SpecConcurrent == InitConcurrent /\ [][NextConcurrent]_vars

\* ------------------------------------------------------------ claims
IsPrefix(s, t) == Len(s) <= Len(t) /\ SubSeq(t, 1, Len(s)) = s

\* What a request asks for, read from the request itself.
IsLookup(r) == request[r].endpoint = "get_flights"
IsBook(r) == request[r].endpoint = "book_flight"
IsHealth(r) == request[r].endpoint = "health"
HasParam(r, key) == key \in DOMAIN request[r].args
HasTrigger(r) == HasParam(r, "raise") /\ request[r].args["raise"] # ""
Param(r, key) == IF HasParam(r, key) THEN Str(request[r].args[key]) ELSE None

Done(r) == pc[r] = "done"
LogOf(r) == SelectSeq(log, LAMBDA rec : rec.thread = r)
ErrorsOf(r) == SelectSeq(log, LAMBDA rec : rec.thread = r /\ rec.levelname = "ERROR")

\* C1: a LookupFlight or BookFlight request whose `raise` parameter is a
\* non-empty string, whatever its value and the other parameters, never gets
\* a success response and never reaches the success path; once handled, its
\* outcome is the 500 response of an exception carrying the supplied code.
C1_TriggerEndsInServerError ==
    \A r \in Contexts :
        (IsLookup(r) \/ IsBook(r)) /\ HasTrigger(r) =>
            /\ response[r].status # 200
            /\ pc[r] \notin {"generated", "return"}
            /\ Done(r) => /\ response[r].status = 500
                          /\ raised[r] = Str(request[r].args["raise"])

C1_Witness ==
    \E r \in Contexts :
        /\ IsBook(r) /\ Done(r)
        /\ HasParam(r, "raise") /\ request[r].args["raise"] = "boom"
        /\ ~HasParam(r, "passenger_name")
        /\ response[r].status = 500

\* C2: a valid request without a `raise` parameter is answered 200 with the
\* expected shape: LookupFlight returns exactly one key, the airline, mapped
\* to a one-element list holding the generated integer; BookFlight returns
\* exactly passenger_name, flight_num and booking_id, the first two echoed.
ValidLookup(r) ==
    IsLookup(r) /\ request[r].airline \in {"AA", "UA", "DL"} /\ ~HasParam(r, "raise")

ValidBook(r) ==
    /\ IsBook(r) /\ ~HasParam(r, "raise")
    /\ HasParam(r, "passenger_name")
    /\ request[r].args["passenger_name"] \in {"John Doe", "Jane Doe"}
    /\ HasParam(r, "flight_num")
    /\ request[r].args["flight_num"] \in {"101", "202", "303", "404", "505", "606"}

C2_ValidRequestSucceedsWithShape ==
    \A r \in Contexts :
        Done(r) =>
            /\ ValidLookup(r) =>
                 /\ response[r].status = 200
                 /\ DOMAIN response[r].body = {request[r].airline}
                 /\ response[r].body[request[r].airline] = <<random_int[r]>>
                 /\ random_int[r] \in Int
            /\ ValidBook(r) =>
                 /\ response[r].status = 200
                 /\ DOMAIN response[r].body
                        = {"passenger_name", "flight_num", "booking_id"}
                 /\ response[r].body.passenger_name
                        = Str(request[r].args["passenger_name"])
                 /\ response[r].body.flight_num
                        = Str(request[r].args["flight_num"])
                 /\ response[r].body.booking_id = booking_id[r]

C2_Witness ==
    \E r \in Contexts :
        /\ Done(r) /\ ValidBook(r)
        /\ response[r].body.passenger_name = Str("John Doe")
        /\ response[r].body.flight_num = Str("101")

\* C3: every integer placed in a response, the flight number of LookupFlight
\* and the booking_id of BookFlight, lies in the closed range [100, 999], and
\* so is every identifier a handler holds after drawing it.
C3_IdentifiersInRange ==
    \A r \in Contexts :
        /\ pc[r] \in {"generated", "return", "done"} /\ IsLookup(r) /\ ~HasTrigger(r)
              => random_int[r] \in 100..999
        /\ pc[r] \in {"generated", "return", "done"} /\ IsBook(r) /\ ~HasTrigger(r)
              => booking_id[r] \in 100..999
        /\ response[r].status = 200 =>
            /\ IsLookup(r) =>
                 \A k \in DOMAIN response[r].body :
                     \A i \in DOMAIN response[r].body[k] :
                         response[r].body[k][i] >= 100 /\ response[r].body[k][i] <= 999
            /\ IsBook(r) =>
                 response[r].body.booking_id >= 100 /\ response[r].body.booking_id <= 999

C3_Witness ==
    \E r \in Contexts :
        /\ IsLookup(r) /\ response[r].status = 200
        /\ response[r].body[request[r].airline] = <<999>>

\* C4: HealthCheck always answers 200 {"status": "healthy"}, whatever the
\* other requests did before it or do concurrently, injected failures
\* included, and it emits no error record.
C4_HealthAlwaysHealthy ==
    \A r \in Contexts :
        IsHealth(r) =>
            /\ response[r].status \in {0, 200}
            /\ ErrorsOf(r) = <<>>
            /\ Done(r) => /\ response[r].status = 200
                          /\ response[r].body = [status |-> "healthy"]

C4_Witness ==
    \E r, q \in Contexts :
        /\ IsHealth(r) /\ Done(r)
        /\ response[q].status = 500
        /\ \E i, j \in DOMAIN log :
              /\ i < j
              /\ log[i].thread = q /\ log[i].levelname = "ERROR"
              /\ log[j].thread = r

\* The context a failure names: the airline, or the passenger name.
ContextOf(r) ==
    IF IsLookup(r) THEN Str(request[r].airline) ELSE Param(r, "passenger_name")

\* C5: whenever the injected failure of LookupFlight or BookFlight is about to
\* leave the handler or has left it, an error record of that request naming
\* its context (airline, passenger name) is already in the log.
C5_ErrorLoggedBeforeFailure ==
    \A r \in Contexts :
        (IsLookup(r) \/ IsBook(r))
          /\ (pc[r] = "raise" \/ raised[r] # None \/ response[r].status = 500) =>
            \E i \in DOMAIN log :
                /\ log[i].thread = r
                /\ log[i].levelname = "ERROR"
                /\ log[i].args = <<ContextOf(r)>>

C5_Witness ==
    \E r \in Contexts :
        /\ IsLookup(r) /\ request[r].airline = "ZZ"
        /\ raised[r] = Str("500") /\ response[r].status = 500
        /\ ErrorsOf(r) # <<>>

\* C6: a LookupFlight or BookFlight request with no failure trigger never
\* ends in an error, whatever strings are supplied, values outside the
\* documented enums and missing BookFlight parameters included: it is
\* answered 200 with its values echoed.
C6_NoTriggerNoError ==
    \A r \in Contexts :
        (IsLookup(r) \/ IsBook(r)) /\ ~HasTrigger(r) =>
            /\ response[r].status # 500
            /\ raised[r] = None
            /\ pc[r] # "raise"
            /\ Done(r) =>
                 /\ response[r].status = 200
                 /\ IsLookup(r) => DOMAIN response[r].body = {request[r].airline}
                 /\ IsBook(r) =>
                      /\ response[r].body.passenger_name = Param(r, "passenger_name")
                      /\ response[r].body.flight_num = Param(r, "flight_num")

C6_Witness ==
    \E r \in Contexts :
        /\ IsBook(r) /\ Done(r)
        /\ ~HasParam(r, "passenger_name") /\ ~HasParam(r, "flight_num")
        /\ response[r].status = 200
        /\ response[r].body.passenger_name = None

\* The events of a handler, by the failure flag of its request.
ExpectedEvents(r) ==
    IF HasTrigger(r)
    THEN <<"entry", "error", "abort">>
    ELSE <<"entry", "generate", "result", "respond">>

\* The level of the record an event emits.
LevelOf(e) == IF e = "error" THEN "ERROR" ELSE "INFO"

LoggedEvents(r) == SelectSeq(events[r], LAMBDA e : e \in {"entry", "error", "result"})

\* C7: the events of a LookupFlight or BookFlight request come in the order
\* fixed by its failure flag: entry record, then either one generation, one
\* result record and the 200 response with no error record, or one error
\* record and the abort with no generation and no result record; its records
\* in the log are those of its events, in that order.
C7_FixedEventOrder ==
    \A r \in Contexts :
        (IsLookup(r) \/ IsBook(r)) =>
            /\ IsPrefix(events[r], ExpectedEvents(r))
            /\ Done(r) => events[r] = ExpectedEvents(r)
            /\ Len(LogOf(r)) = Len(LoggedEvents(r))
            /\ \A i \in DOMAIN LogOf(r) :
                   LogOf(r)[i].levelname = LevelOf(LoggedEvents(r)[i])
            /\ response[r].status = 200 => events[r][Len(events[r])] = "respond"
            /\ response[r].status = 500 => events[r][Len(events[r])] = "abort"

C7_Witness ==
    \E r \in Contexts :
        /\ IsBook(r) /\ HasTrigger(r) /\ Done(r)
        /\ events[r] = <<"entry", "error", "abort">>
        /\ Len(LogOf(r)) = 2

\* C8: the failure path is taken if and only if `raise` is a non-empty
\* string; a `raise` that is present but empty takes the success path as if
\* it were absent: 200, an identifier generated, no error record.
C8_EmptyRaiseIsNoTrigger ==
    \A r \in Contexts :
        (IsLookup(r) \/ IsBook(r)) /\ pc[r] \notin {"idle", "called", "branch"} =>
            /\ (pc[r] = "raise" \/ response[r].status = 500 \/ ErrorsOf(r) # <<>>)
                   <=> HasTrigger(r)
            /\ (pc[r] \in {"generated", "return"} \/ response[r].status = 200)
                   <=> ~HasTrigger(r)
            /\ HasParam(r, "raise") /\ request[r].args["raise"] = "" /\ Done(r) =>
                   /\ response[r].status = 200
                   /\ (IF IsLookup(r) THEN random_int[r] ELSE booking_id[r]) \in 100..999
                   /\ ErrorsOf(r) = <<>>

C8_Witness ==
    \E r \in Contexts :
        /\ IsLookup(r) /\ Done(r)
        /\ HasParam(r, "raise") /\ request[r].args["raise"] = ""
        /\ response[r].status = 200

\* The locals and the response of a context.
Private(r) ==
    <<pc[r], request[r], passenger_name[r], flight_num[r], status_code[r],
      random_int[r], booking_id[r], response[r], raised[r], events[r]>>

\* C9: a step of request handling, on any operation and either path, leaves
\* the logging sink's configuration as set up at startup, changes the locals
\* of one request only, and changes of the shared log only the end: records
\* are appended, none is removed or altered.
C9_NoSharedStateWritten ==
    [][/\ sink' = sink
       /\ IsPrefix(log, log')
       /\ Len(log') <= Len(log) + 1
       /\ \E q \in Contexts : \A r \in Contexts \ {q} : Private(r)' = Private(r)
      ]_vars

C9_Witness ==
    /\ sink = LoggingSetup(None)
    /\ \E r, q \in Contexts :
          /\ r # q /\ Done(r) /\ Done(q)
          /\ response[r].status = 500 /\ response[q].status = 200
          /\ Len(LogOf(r)) = 2 /\ Len(LogOf(q)) = 2
          /\ Len(log) >= 4

\* C10: under every interleaving of concurrently handled requests, a
\* request's outcome and echoed fields follow from its own parameters and its
\* own records are in the log in its sequential order; a request without a
\* failure trigger never fails and never emits an error record, whatever the
\* requests served next to it carry.
OwnRecords(r) ==
    IF IsLookup(r) \/ IsBook(r)
    THEN IF HasTrigger(r) THEN <<"INFO", "ERROR">> ELSE <<"INFO", "INFO">>
    ELSE <<"INFO">>

C10_RequestsAreIndependent ==
    \A r \in Contexts :
        pc[r] # "idle" =>
            /\ Len(LogOf(r)) <= Len(OwnRecords(r))
            /\ \A i \in DOMAIN LogOf(r) : LogOf(r)[i].levelname = OwnRecords(r)[i]
            /\ ~HasTrigger(r) => response[r].status # 500 /\ ErrorsOf(r) = <<>>
            /\ Done(r) =>
                 /\ response[r].status = IF HasTrigger(r) THEN 500 ELSE 200
                 /\ LogOf(r) # <<>>
                 /\ IsLookup(r) /\ ~HasTrigger(r) =>
                        DOMAIN response[r].body = {request[r].airline}
                 /\ IsBook(r) /\ ~HasTrigger(r) =>
                        /\ response[r].body.passenger_name = Param(r, "passenger_name")
                        /\ response[r].body.flight_num = Param(r, "flight_num")

C10_Witness ==
    \E r, q \in Contexts :
        /\ HasTrigger(q) /\ ~HasTrigger(r) /\ IsBook(r)
        /\ Done(q) /\ Done(r)
        /\ response[q].status = 500 /\ response[r].status = 200
        /\ \E i, j, k, l \in DOMAIN log :
              /\ i < j /\ j < k /\ k < l
              /\ log[i].thread = q /\ log[j].thread = r
              /\ log[k].thread = q /\ log[k].levelname = "ERROR"
              /\ log[l].thread = r

====
